---- MODULE Spec2Model ----
(***************************************************************************)
(* Model of the breakout playfield core: the Q8.8 FixedPoint type          *)
(* (common/arduino_breakout_common/src/fixedpoint.rs), the shared          *)
(* Playfield (common/breakout_common/src/playfield.rs) and the desktop     *)
(* driver loop (on_host/breakout_sdl/src/main.rs).                         *)
(*                                                                         *)
(* FixedPoint values are modelled by their raw i16 value.  The pixel       *)
(* buffer is modelled by its length and by the finite map of its non-zero  *)
(* bytes (a byte that is absent from the map is 0x00).                     *)
(***************************************************************************)
EXTENDS Integers, FiniteSets, Sequences, TLC

VARIABLES
    profile,    \* "dev": debug assertions and overflow checks on; "release": off
    ball,       \* Playfield.ball: [position: [x, y], velocity: [x, y]], raw values
    screen,     \* the caller's pixel buffer: [len, bytes]
    outcome,    \* "ok", or the panic that ended the program
    pc,         \* position of the driver: "advance" / "poll" / "render" / "exit" (main loop), "api", "test"
    last,       \* the operation that ran last: "new", "advance", "draw"
    prev,       \* [ball, screen] as they were when the last operation was called
    flips,      \* number of flip_x / flip_y calls made by the last advance()
    written,    \* byte indices stored to by the last draw()
    calls,      \* number of library calls made so far (bounded API specification)
    fp,         \* the FixedPoint operation evaluated last: [op, a, b, value, flag, back]
    board,      \* the firmware's main(): its position, locals and playfield
    timer,      \* timer.rs: TICK_TIMER, the SysTick handler and a caller of delay()
    bus         \* oled.rs: the display's pins, the SERCOM1 SPI and the caller of send()

vars == <<profile, ball, screen, outcome, pc, last, prev, flips, written, calls, fp,
          board, timer, bus>>

(***************************************************************************)
(* Bounds of the model.                                                    *)
(***************************************************************************)
\* library calls made by a client in the bounded API specifications
MaxCalls == 3
\* largest ball speed, in whole pixels per tick, among the sampled velocities
MaxSpeed == 4
\* the integers -MaxSmall .. MaxSmall are among the sampled FixedPoint operands
MaxSmall == 12
\* iterations of the firmware's main loop that are followed
MaxIterations == 4
\* SysTick exceptions that are followed
MaxTicks == 5
\* longest delay() asked for, in milliseconds
MaxMillis == 30
\* of set_up's 512 chunks of zeroes, the ones that are followed
MaxChunks == 2
\* bytes of a chunk that are followed, of its 64
ChunkLen == 3
\* send() calls after set_up that are followed
MaxSends == 2

(***************************************************************************)
(* fixedpoint.rs                                                           *)
(***************************************************************************)
EXPONENT == 8

I16_MIN == -32768
I16_MAX == 32767

Pow2(n) == 2 ^ n

\* the i16 that has the same low 16 bits as n
WrapI16(n) == ((n - I16_MIN) % 65536) + I16_MIN

\* the i8 that has the same low 8 bits as n
WrapI8(n) == ((n + 128) % 256) - 128

FitsI16(n) == n >= I16_MIN /\ n <= I16_MAX

\* FixedPointMulResult = i32
I32_MAX == 2147483647
I32_MIN == 0 - I32_MAX - 1

FitsI32(n) == n >= I32_MIN /\ n <= I32_MAX

\* 0xFFFF
MUL_RESULT_MASK == 65535

\* n & MUL_RESULT_MASK on a two's-complement n: the low 16 bits, as a number >= 0
Masked(n) == n % (MUL_RESULT_MASK + 1)

\* n >> EXPONENT on a signed n: the arithmetic shift rounds toward minus infinity
ShiftRight(n) == n \div Pow2(EXPONENT)

\* Rust's integer division, which truncates toward zero
TruncDiv(n, d) ==
    LET abs_n == IF n < 0 THEN 0 - n ELSE n
        abs_d == IF d < 0 THEN 0 - d ELSE d
        q == abs_n \div abs_d
    IN  IF (n < 0) = (d < 0) THEN q ELSE 0 - q

\* arithmetic on the primitive integers traps on overflow when the crate is
\* built with overflow checks and wraps otherwise
OverflowChecks == profile = "dev"
DebugAssertions == profile = "dev"

new_integer(int) == WrapI16(int * Pow2(EXPONENT))

new_raw(value) == value

zero == 0

one == new_integer(1)

\* the fraction dropped toward zero, as a division by 256 would
as_integer_TowardZero(value) == WrapI8(TruncDiv(value, Pow2(EXPONENT)))

\* (self.value >> EXPONENT) as i8
as_integer(value) == WrapI8(ShiftRight(value))

\* the mask taken one bit short
is_integer_ShortMask(value) == (value % (Pow2(EXPONENT) \div 2)) = 0

\* (self.value & FRAC_MASK) == 0, FRAC_MASK = (1 << EXPONENT) - 1
is_integer(value) == (value % Pow2(EXPONENT)) = 0

\* the body of Sub copied into Add
add_CopiedSub(a, b) == [value |-> WrapI16(a - b), panic |-> OverflowChecks /\ ~FitsI16(a - b)]

\* impl Add: self.value + rhs.value
add(a, b) == [value |-> WrapI16(a + b), panic |-> OverflowChecks /\ ~FitsI16(a + b)]

\* impl Sub: self.value - rhs.value
sub(a, b) == [value |-> WrapI16(a - b), panic |-> OverflowChecks /\ ~FitsI16(a - b)]

\* the operands multiplied in the 16-bit type, without widening
mul_NoWiden(a, b) ==
    [value |-> WrapI16(Masked(ShiftRight(WrapI16(a * b)))), panic |-> FALSE]

\* the product rounded to nearest and not truncated
mul_Rounding(a, b) ==
    [value |-> WrapI16(Masked(ShiftRight(a * b + Pow2(EXPONENT) \div 2))), panic |-> FALSE]

\* impl Mul: ((left * right) >> EXPONENT) & MUL_RESULT_MASK, as i16; the
\* operands are widened to i32 first
mul(a, b) ==
    LET product == a * b
    IN  [value |-> WrapI16(Masked(ShiftRight(product))),
         panic |-> OverflowChecks /\ ~FitsI32(product)]

\* the dividend divided as it is, without the shift
div_NoShift(a, b) ==
    IF b = 0 THEN [value |-> 0, panic |-> TRUE]
    ELSE [value |-> WrapI16(Masked(TruncDiv(a, b))), panic |-> FALSE]

\* the quotient shifted after the division, not the dividend before it
div_LateShift(a, b) ==
    IF b = 0 THEN [value |-> 0, panic |-> TRUE]
    ELSE [value |-> WrapI16(Masked(TruncDiv(a, b) * Pow2(EXPONENT))), panic |-> FALSE]

\* a division that rounds toward minus infinity
div_Floor(a, b) ==
    LET dividend == a * Pow2(EXPONENT)
    IN  IF b = 0 THEN [value |-> 0, panic |-> TRUE]
        ELSE [value |-> WrapI16(Masked(dividend \div b)), panic |-> FALSE]

\* a division that answers zero for a zero divisor
div_ZeroGuard(a, b) ==
    LET dividend == a * Pow2(EXPONENT)
    IN  IF b = 0 THEN [value |-> 0, panic |-> FALSE]
        ELSE [value |-> WrapI16(Masked(TruncDiv(dividend, b))), panic |-> FALSE]

\* impl Div: (((self.value as i32) << EXPONENT) / (rhs.value as i32)) &
\* MUL_RESULT_MASK, as i16.  The division panics on a zero divisor in every
\* build; no value is returned then.
div(a, b) ==
    LET dividend == a * Pow2(EXPONENT)
    IN  IF b = 0 THEN [value |-> 0, panic |-> TRUE]
        ELSE [value |-> WrapI16(Masked(TruncDiv(dividend, b))),
              panic |-> ~FitsI32(TruncDiv(dividend, b))]

\* a negation written as the bitwise complement, !self.value
neg_Complement(a) == [value |-> WrapI16(0 - a - 1), panic |-> FALSE]

\* impl Neg: -self.value
neg(a) == [value |-> WrapI16(0 - a), panic |-> OverflowChecks /\ ~FitsI16(0 - a)]

(***************************************************************************)
(* playfield.rs: constants                                                 *)
(***************************************************************************)
DISPLAY_WIDTH == 96
DISPLAY_HEIGHT == 96
PLAYFIELD_WIDTH == new_integer(94)
PLAYFIELD_HEIGHT == new_integer(85)
PLAYFIELD_LEFT == 1
PLAYFIELD_TOP == 10
BYTES_PER_PIXEL == 2
DISPLAY_ROW_BYTES == DISPLAY_WIDTH * BYTES_PER_PIXEL
DISPLAY_BYTES == DISPLAY_HEIGHT * DISPLAY_ROW_BYTES

\* 4 * 0b1011_0110
INITIAL_VELOCITY == 4 * 182

(***************************************************************************)
(* The state a Playfield method works on: the playfield itself, the buffer *)
(* it is handed, and how far the call got.                                 *)
(***************************************************************************)
Call(b, s) ==
    [ball |-> b, screen |-> s, outcome |-> "ok",
     flips |-> [x |-> 0, y |-> 0], written |-> {}]

Panic(m, why) == [m EXCEPT !.outcome = why]

(***************************************************************************)
(* playfield.rs: Playfield::new                                            *)
(***************************************************************************)
Playfield_new ==
    [position |-> [x |-> zero, y |-> zero],
     velocity |-> [x |-> new_raw(INITIAL_VELOCITY), y |-> new_raw(INITIAL_VELOCITY)]]

(***************************************************************************)
(* playfield.rs: Vec2::flip_x, Vec2::flip_y on self.ball.velocity          *)
(***************************************************************************)
flip_x(m) ==
    LET r == neg(m.ball.velocity.x)
    IN  IF r.panic THEN Panic(m, "overflow")
        ELSE [m EXCEPT !.ball.velocity.x = r.value, !.flips.x = @ + 1]

\* a reflection that stops the ball on the axis
flip_y_Halt(m) == [m EXCEPT !.ball.velocity.y = zero, !.flips.y = @ + 1]

flip_y(m) ==
    LET r == neg(m.ball.velocity.y)
    IN  IF r.panic THEN Panic(m, "overflow")
        ELSE [m EXCEPT !.ball.velocity.y = r.value, !.flips.y = @ + 1]

(***************************************************************************)
(* playfield.rs: Playfield::advance_ball, statement by statement.  A       *)
(* statement is skipped once the call has panicked.                        *)
(***************************************************************************)
\* self.ball.position.x += self.ball.velocity.x;
AddVelocityX(m) ==
    LET r == add(m.ball.position.x, m.ball.velocity.x)
    IN  IF m.outcome # "ok" THEN m
        ELSE IF r.panic THEN Panic(m, "overflow")
        ELSE [m EXCEPT !.ball.position.x = r.value]

\* self.ball.position.y += self.ball.velocity.y;
AddVelocityY(m) ==
    LET r == add(m.ball.position.y, m.ball.velocity.y)
    IN  IF m.outcome # "ok" THEN m
        ELSE IF r.panic THEN Panic(m, "overflow")
        ELSE [m EXCEPT !.ball.position.y = r.value]

\* the low edge reflected without clamping the position
ClampLowX_NoClamp(m) ==
    IF m.outcome # "ok" THEN m
    ELSE IF m.ball.position.x < zero THEN flip_x(m) ELSE m

\* if self.ball.position.x < FixedPoint::zero() { ... }
ClampLowX(m) ==
    IF m.outcome # "ok" THEN m
    ELSE IF m.ball.position.x < zero
         THEN flip_x([m EXCEPT !.ball.position.x = zero])
         ELSE m

\* the high edge not checked
ClampHighX_Through(m) == m

\* the high edge clamped to the extent itself, and not to extent - 1
ClampHighX_ToExtent(m) ==
    IF m.outcome # "ok" THEN m
    ELSE IF m.ball.position.x >= PLAYFIELD_WIDTH
         THEN flip_x([m EXCEPT !.ball.position.x = PLAYFIELD_WIDTH])
         ELSE m

\* if self.ball.position.x >= PLAYFIELD_WIDTH { ... }
ClampHighX(m) ==
    LET r == sub(PLAYFIELD_WIDTH, one)
    IN  IF m.outcome # "ok" THEN m
        ELSE IF m.ball.position.x >= PLAYFIELD_WIDTH
             THEN IF r.panic THEN Panic(m, "overflow")
                  ELSE flip_x([m EXCEPT !.ball.position.x = r.value])
             ELSE m

\* the y checks chained to the x checks with else-if: skipped after an x bounce
ClampLowY_ElseIf(m) ==
    IF m.outcome # "ok" \/ m.flips.x > 0 THEN m
    ELSE IF m.ball.position.y < zero
         THEN flip_y([m EXCEPT !.ball.position.y = zero])
         ELSE m

\* if self.ball.position.y < FixedPoint::zero() { ... }
ClampLowY(m) ==
    IF m.outcome # "ok" THEN m
    ELSE IF m.ball.position.y < zero
         THEN flip_y([m EXCEPT !.ball.position.y = zero])
         ELSE m

\* the high edge clamped to the extent itself, one row below the field
ClampHighY_ToExtent(m) ==
    IF m.outcome # "ok" THEN m
    ELSE IF m.ball.position.y >= PLAYFIELD_HEIGHT
         THEN flip_y([m EXCEPT !.ball.position.y = PLAYFIELD_HEIGHT])
         ELSE m

\* the high edge clamped without reflecting the ball
ClampHighY_NoFlip(m) ==
    IF m.outcome # "ok" THEN m
    ELSE IF m.ball.position.y >= PLAYFIELD_HEIGHT
         THEN [m EXCEPT !.ball.position.y = PLAYFIELD_HEIGHT - one]
         ELSE m

\* if self.ball.position.y >= PLAYFIELD_HEIGHT { ... }
ClampHighY(m) ==
    LET r == sub(PLAYFIELD_HEIGHT, one)
    IN  IF m.outcome # "ok" THEN m
        ELSE IF m.ball.position.y >= PLAYFIELD_HEIGHT
             THEN IF r.panic THEN Panic(m, "overflow")
                  ELSE flip_y([m EXCEPT !.ball.position.y = r.value])
             ELSE m

advance_ball(m) ==
    ClampHighY(ClampLowY(ClampHighX(ClampLowX(AddVelocityY(AddVelocityX(m))))))

advance(m) == advance_ball(m)

(***************************************************************************)
(* playfield.rs: stores into the buffer.  buffer[i] = 0xFF panics when i   *)
(* is not an index of the buffer; what was stored before stays stored.     *)
(***************************************************************************)
ZeroBuffer(n) == [len |-> n, bytes |-> << >>]

Store(m, i) ==
    IF m.outcome # "ok" THEN m
    ELSE IF i < 0 \/ i >= m.screen.len THEN Panic(m, "bounds")
    ELSE [m EXCEPT !.screen.bytes = (i :> 255) @@ @, !.written = @ \cup {i}]

\* the stores of one line, made in increasing index order: every index up to
\* the first one outside the buffer is stored to
StoreLine(m, idx) ==
    LET inside == {i \in idx : i < m.screen.len}
        stored == [m EXCEPT !.screen.bytes = [i \in inside |-> 255] @@ @,
                            !.written = @ \cup inside]
    IN  IF m.outcome # "ok" THEN m
        ELSE IF inside = idx THEN stored
        ELSE Panic(stored, "bounds")

draw_horizontal_line(m, x, y, length) ==
    LET y_offset == y * DISPLAY_ROW_BYTES
    IN  StoreLine(m, {y_offset + my_x * BYTES_PER_PIXEL + i :
                        my_x \in x .. (x + length - 1), i \in 0 .. (BYTES_PER_PIXEL - 1)})

\* the column taken as a byte offset, not scaled by the pixel size
draw_vertical_line_Unscaled(m, x, y, length) ==
    StoreLine(m, {my_y * DISPLAY_ROW_BYTES + x + i :
                    my_y \in y .. (y + length - 1), i \in 0 .. (BYTES_PER_PIXEL - 1)})

draw_vertical_line(m, x, y, length) ==
    StoreLine(m, {my_y * DISPLAY_ROW_BYTES + x * BYTES_PER_PIXEL + i :
                    my_y \in y .. (y + length - 1), i \in 0 .. (BYTES_PER_PIXEL - 1)})

\* the assertion written as "the buffer is long enough"
debug_assert_len_AtLeast(m) ==
    IF m.outcome # "ok" THEN m
    ELSE IF DebugAssertions /\ m.screen.len < DISPLAY_BYTES THEN Panic(m, "assert")
    ELSE m

\* debug_assert_eq!(buffer.len(), DISPLAY_BYTES);
debug_assert_len(m) ==
    IF m.outcome # "ok" THEN m
    ELSE IF DebugAssertions /\ m.screen.len # DISPLAY_BYTES THEN Panic(m, "assert")
    ELSE m

BORDER_LEFT == PLAYFIELD_LEFT - 1
BORDER_HORIZONTAL_LENGTH == as_integer(PLAYFIELD_WIDTH) + 2

draw_playfield_border(m) ==
    LET top    == draw_horizontal_line(debug_assert_len(m), BORDER_LEFT,
                      PLAYFIELD_TOP - 1, BORDER_HORIZONTAL_LENGTH)
        bottom == draw_horizontal_line(top, BORDER_LEFT,
                      PLAYFIELD_TOP + as_integer(PLAYFIELD_HEIGHT), BORDER_HORIZONTAL_LENGTH)
        left   == draw_vertical_line(bottom, BORDER_LEFT,
                      PLAYFIELD_TOP - 1, as_integer(PLAYFIELD_HEIGHT) + 1)
        right  == draw_vertical_line(left, BORDER_LEFT + as_integer(PLAYFIELD_WIDTH) + 1,
                      PLAYFIELD_TOP - 1, as_integer(PLAYFIELD_HEIGHT) + 1)
    IN  right

\* the ball drawn at its playfield coordinates, without the playfield's offset
\* inside the display
draw_ball_NoOffset(m) ==
    LET ball_x == as_integer(m.ball.position.x)
        ball_y == as_integer(m.ball.position.y)
        ball_offset == ball_y * DISPLAY_ROW_BYTES + ball_x * BYTES_PER_PIXEL
    IN  IF m.outcome # "ok" THEN m
        ELSE Store(Store(m, ball_offset + 0), ball_offset + 1)

\* `as usize` of a negative i8 is sign-extended: adding to it or multiplying it
\* overflows usize, which traps under overflow checks and wraps otherwise.  The
\* wrapped offset is the signed value below when that is not negative, and an
\* index far outside every buffer when it is.
draw_ball(m) ==
    LET int_x == as_integer(m.ball.position.x)
        int_y == as_integer(m.ball.position.y)
        ball_x == PLAYFIELD_LEFT + int_x
        ball_y == PLAYFIELD_TOP + int_y
        ball_offset == ball_y * DISPLAY_ROW_BYTES + ball_x * BYTES_PER_PIXEL
    IN  IF m.outcome # "ok" THEN m
        ELSE IF OverflowChecks /\ (int_x < 0 \/ int_y < 0) THEN Panic(m, "overflow")
        ELSE Store(Store(m, ball_offset + 0), ball_offset + 1)

\* a draw that also steps the simulation
draw_Advancing(m) == advance_ball(draw_ball(draw_playfield_border(debug_assert_len(m))))

draw(m) == draw_ball(draw_playfield_border(debug_assert_len(m)))

(***************************************************************************)
(* The effect of a library call on the program state.                      *)
(***************************************************************************)
Return(m, op, handed) ==
    /\ ball' = m.ball
    /\ screen' = m.screen
    /\ outcome' = m.outcome
    /\ flips' = m.flips
    /\ written' = m.written
    /\ last' = op
    /\ prev' = [ball |-> ball, screen |-> handed]
    /\ UNCHANGED <<fp, board, timer, bus>>

\* the firmware is not part of the program: its main() has not been entered,
\* no SysTick is set up and nothing drives the display
BoardOff ==
    [pc |-> "off", state |-> 0, delay_counter |-> 0, iterations |-> 0, draws |-> 0,
     advances |-> 0, frames |-> 0, ball |-> Playfield_new]

TimerOff ==
    [TICK_TIMER |-> 0, handler |-> << >>, ticks |-> 0,
     pc |-> "off", target_value |-> 0, before |-> 0, seen |-> 0]

BusOff == [pc |-> "off"]

\* no FixedPoint operation evaluated by a test
NoTest == [op |-> "none", a |-> 0, b |-> 0, value |-> 0, flag |-> FALSE, back |-> 0]

NoCall == [x |-> 0, y |-> 0]

(***************************************************************************)
(* on_host/breakout_sdl/src/main.rs: the desktop program.  The main loop   *)
(* advances the playfield, polls the window's events (leaving the loop on  *)
(* Quit or Escape) and renders the playfield into a fresh buffer.          *)
(***************************************************************************)
Init ==
    /\ profile \in {"dev", "release"}
    /\ ball = Playfield_new
    /\ screen = ZeroBuffer(0)
    /\ outcome = "ok"
    /\ pc = "advance"
    /\ last = "new"
    /\ prev = [ball |-> Playfield_new, screen |-> ZeroBuffer(0)]
    /\ flips = NoCall
    /\ written = {}
    /\ calls = 0
    /\ fp = NoTest
    /\ board = BoardOff
    /\ timer = TimerOff
    /\ bus = BusOff

\* playfield.advance();
MainAdvance ==
    /\ pc = "advance"
    /\ outcome = "ok"
    /\ Return(advance(Call(ball, screen)), "advance", screen)
    /\ pc' = "poll"
    /\ UNCHANGED <<profile, calls>>

\* for event in event_pump.poll_iter() { ... }: no Quit and no Escape key
MainPoll ==
    /\ pc = "poll"
    /\ outcome = "ok"
    /\ pc' = "render"
    /\ UNCHANGED <<profile, ball, screen, outcome, last, prev, flips, written, calls, fp, board, timer, bus>>

\* Event::Quit or Escape: break 'main_loop
MainQuit ==
    /\ pc = "poll"
    /\ outcome = "ok"
    /\ pc' = "exit"
    /\ UNCHANGED <<profile, ball, screen, outcome, last, prev, flips, written, calls, fp, board, timer, bus>>

\* render_playfield: let mut buf = [0u8; DISPLAY_BYTES]; playfield.draw(&mut buf);
render_playfield ==
    /\ pc = "render"
    /\ outcome = "ok"
    /\ Return(draw(Call(ball, ZeroBuffer(DISPLAY_BYTES))), "draw", ZeroBuffer(DISPLAY_BYTES))
    /\ pc' = "advance"
    /\ UNCHANGED <<profile, calls>>

Next == MainAdvance \/ MainPoll \/ MainQuit \/ render_playfield

Spec == Init /\ [][Next]_vars

(***************************************************************************)
(* The library used by any client: the pub methods advance() and draw()    *)
(* called in any order on a playfield whose pub ball field the client has  *)
(* set, with a buffer the client has allocated.                            *)
(***************************************************************************)
\* buffer lengths a client hands to draw()
BufferLens == {DISPLAY_BYTES - 1, DISPLAY_BYTES, DISPLAY_BYTES + 1}

\* ball speeds per axis, raw
Speeds == {0 - MaxSpeed * Pow2(EXPONENT), 0 - INITIAL_VELOCITY, 0, INITIAL_VELOCITY,
           MaxSpeed * Pow2(EXPONENT)}

\* ball positions on an axis of the given extent, raw: both edges and one
\* initial-velocity step from each
FieldPositions(extent) == {0, INITIAL_VELOCITY, extent - INITIAL_VELOCITY, extent - 1}

FieldBalls ==
    {[position |-> [x |-> px, y |-> py], velocity |-> [x |-> vx, y |-> vy]] :
        px \in FieldPositions(PLAYFIELD_WIDTH), py \in FieldPositions(PLAYFIELD_HEIGHT),
        vx \in Speeds, vy \in Speeds}

InitApi(balls, lens) ==
    /\ profile \in {"dev", "release"}
    /\ ball \in balls
    /\ screen \in {ZeroBuffer(n) : n \in lens}
    /\ outcome = "ok"
    /\ pc = "api"
    /\ last = "new"
    /\ prev = [ball |-> ball, screen |-> screen]
    /\ flips = NoCall
    /\ written = {}
    /\ calls = 0
    /\ fp = NoTest
    /\ board = BoardOff
    /\ timer = TimerOff
    /\ bus = BusOff

\* playfield.advance()
ApiAdvance ==
    /\ pc = "api"
    /\ outcome = "ok"
    /\ calls < MaxCalls
    /\ Return(advance(Call(ball, screen)), "advance", screen)
    /\ calls' = calls + 1
    /\ UNCHANGED <<profile, pc>>

\* playfield.draw(&mut screen)
ApiDraw ==
    /\ pc = "api"
    /\ outcome = "ok"
    /\ calls < MaxCalls
    /\ Return(draw(Call(ball, screen)), "draw", screen)
    /\ calls' = calls + 1
    /\ UNCHANGED <<profile, pc>>

InitField == InitApi(FieldBalls, BufferLens)

NextField == ApiAdvance \/ ApiDraw

SpecField == InitField /\ [][NextField]_vars

(***************************************************************************)
(* advance() as a function of an arbitrary ball: every combination of the  *)
(* ends of the 16-bit range, the playfield edges and the sampled speeds.   *)
(***************************************************************************)
RawPositions(extent) == {I16_MIN, -1, 0, extent - 1, extent, I16_MAX}

RawSpeeds == Speeds \cup {I16_MIN, I16_MAX}

RawBalls ==
    {[position |-> [x |-> px, y |-> py], velocity |-> [x |-> vx, y |-> vy]] :
        px \in RawPositions(PLAYFIELD_WIDTH), py \in RawPositions(PLAYFIELD_HEIGHT),
        vx \in RawSpeeds, vy \in RawSpeeds}

InitRaw == InitApi(RawBalls, {DISPLAY_BYTES})

NextRaw == ApiAdvance

SpecRaw == InitRaw /\ [][NextRaw]_vars

(***************************************************************************)
(* draw() as a function of the ball: one draw() into a zero-filled buffer  *)
(* of DISPLAY_BYTES bytes, for a ball on every pixel of the playfield, at  *)
(* the start and at the end of the pixel's raw range.                      *)
(***************************************************************************)
PixelBalls ==
    {[position |-> [x |-> col * Pow2(EXPONENT) + frac, y |-> row * Pow2(EXPONENT) + frac],
      velocity |-> [x |-> new_raw(INITIAL_VELOCITY), y |-> new_raw(INITIAL_VELOCITY)]] :
        col \in 0 .. (as_integer(PLAYFIELD_WIDTH) - 1),
        row \in 0 .. (as_integer(PLAYFIELD_HEIGHT) - 1),
        frac \in {0, Pow2(EXPONENT) - 1}}

InitDraw == InitApi(PixelBalls, {DISPLAY_BYTES})

\* playfield.draw(&mut screen), once
DrawFrame == calls = 0 /\ ApiDraw

NextDraw == DrawFrame

SpecDraw == InitDraw /\ [][NextDraw]_vars

(***************************************************************************)
(* fixedpoint.rs: the operations of FixedPoint as functions of their       *)
(* operands, each evaluated once on operands drawn from the samples, as    *)
(* the unit tests of mod tests evaluate them on theirs.                    *)
(***************************************************************************)
\* FixedPointIntegerValue = i8
I8 == -128 .. 127

\* the small integers, the ends of the i8 range and the integers of mod tests
SampleInts ==
    (0 - MaxSmall .. MaxSmall) \cup {-128, -127, -65, -64, -19, 21, 23, 32, 42, 63, 64, 65, 126, 127}

\* the sampled integers as FixedPoint, values with a fraction next to zero and
\* next to both ends of the i16 range, and the ball's speed
SampleRaws ==
    {new_integer(n) : n \in SampleInts}
    \cup {n * Pow2(EXPONENT) + f : n \in {-128, -2, -1, 0, 1, 2, 127}, f \in {1, 128, 255}}
    \cup {INITIAL_VELOCITY, 0 - INITIAL_VELOCITY}

InitFixed ==
    /\ profile \in {"dev", "release"}
    /\ ball = Playfield_new
    /\ screen = ZeroBuffer(0)
    /\ outcome = "ok"
    /\ pc = "test"
    /\ last = "new"
    /\ prev = [ball |-> Playfield_new, screen |-> ZeroBuffer(0)]
    /\ flips = NoCall
    /\ written = {}
    /\ calls = 0
    /\ fp = NoTest
    /\ board = BoardOff
    /\ timer = TimerOff
    /\ bus = BusOff

\* no operation has been evaluated yet
Untested == pc = "test" /\ fp.op = "none"

\* one operation evaluated: its value is recorded when it returns one, and the
\* panic when it does not
Evaluate(op, a, b, r, why) ==
    /\ fp' = [op |-> op, a |-> a, b |-> b, value |-> (IF r.panic THEN 0 ELSE r.value),
              flag |-> FALSE, back |-> 0]
    /\ outcome' = (IF r.panic THEN why ELSE "ok")
    /\ UNCHANGED <<profile, ball, screen, pc, last, prev, flips, written, calls, board, timer, bus>>

\* a + b
FpAdd ==
    /\ Untested
    /\ \E a \in SampleRaws, b \in SampleRaws : Evaluate("add", a, b, add(a, b), "overflow")

\* a - b
FpSub ==
    /\ Untested
    /\ \E a \in SampleRaws, b \in SampleRaws : Evaluate("sub", a, b, sub(a, b), "overflow")

\* a * b
FpMul ==
    /\ Untested
    /\ \E a \in SampleRaws, b \in SampleRaws : Evaluate("mul", a, b, mul(a, b), "overflow")

\* a / b
FpDiv ==
    /\ Untested
    /\ \E a \in SampleRaws, b \in SampleRaws : Evaluate("div", a, b, div(a, b), "divide")

\* -a
FpNeg ==
    /\ Untested
    /\ \E a \in SampleRaws : Evaluate("neg", a, 0, neg(a), "overflow")

\* -(-a)
FpNegTwice ==
    /\ Untested
    /\ \E a \in SampleRaws :
           LET once == neg(a)
           IN  Evaluate("neg_twice", a, 0, (IF once.panic THEN once ELSE neg(once.value)),
                        "overflow")

\* a.as_integer()
FpAsInteger ==
    /\ Untested
    /\ \E a \in SampleRaws :
           Evaluate("as_integer", a, 0, [value |-> as_integer(a), panic |-> FALSE], "none")

\* a.is_integer(), and FixedPoint::new_integer(a.as_integer())
FpIsInteger ==
    \E a \in SampleRaws :
        /\ Untested
        /\ fp' = [op |-> "is_integer", a |-> a, b |-> 0, value |-> 0,
                  flag |-> is_integer(a), back |-> new_integer(as_integer(a))]
        /\ UNCHANGED <<profile, ball, screen, outcome, pc, last, prev, flips, written, calls, board, timer, bus>>

\* FixedPoint::new_integer(n), its is_integer() and its as_integer()
FpNewInteger ==
    \E n \in I8 :
        /\ Untested
        /\ fp' = [op |-> "new_integer", a |-> n, b |-> 0, value |-> new_integer(n),
                  flag |-> is_integer(new_integer(n)), back |-> as_integer(new_integer(n))]
        /\ UNCHANGED <<profile, ball, screen, outcome, pc, last, prev, flips, written, calls, board, timer, bus>>

\* (a / b) * b, and (a / b).is_integer()
FpDivMul ==
    /\ Untested
    /\ \E a \in SampleRaws, b \in SampleRaws :
           LET quotient == div(a, b)
               product == mul(quotient.value, b)
               panic == quotient.panic \/ product.panic
           IN  /\ fp' = [op |-> "div_mul", a |-> a, b |-> b,
                         value |-> (IF panic THEN 0 ELSE product.value),
                         flag |-> ~quotient.panic /\ is_integer(quotient.value),
                         back |-> (IF quotient.panic THEN 0 ELSE quotient.value)]
               /\ outcome' = (IF quotient.panic THEN "divide"
                              ELSE IF product.panic THEN "overflow" ELSE "ok")
               /\ UNCHANGED <<profile, ball, screen, pc, last, prev, flips, written, calls, board, timer, bus>>

NextFixed ==
    \/ FpAdd \/ FpSub \/ FpMul \/ FpDiv \/ FpDivMul
    \/ FpNeg \/ FpNegTwice
    \/ FpAsInteger \/ FpIsInteger \/ FpNewInteger

SpecFixed == InitFixed /\ [][NextFixed]_vars

(***************************************************************************)
(* on_board/breakout_arduino/src/playfield.rs: the firmware's own          *)
(* Playfield.  Its constants and its advance_ball are written out in that  *)
(* file a second time; its draw() allocates the screen itself, draws the   *)
(* top and the bottom border line only and sends the screen to the         *)
(* display.                                                                *)
(***************************************************************************)
firmware_DISPLAY_WIDTH == 96
firmware_DISPLAY_HEIGHT == 96

\* the extent of the older firmware (on_board/breakout/src/playfield.rs)
firmware_PLAYFIELD_HEIGHT_Display == new_integer(96)

firmware_PLAYFIELD_WIDTH == new_integer(94)
firmware_PLAYFIELD_HEIGHT == new_integer(85)
firmware_PLAYFIELD_LEFT == 1
firmware_PLAYFIELD_TOP == 10
firmware_BYTES_PER_PIXEL == 2
firmware_DISPLAY_ROW_BYTES == firmware_DISPLAY_WIDTH * firmware_BYTES_PER_PIXEL
firmware_DISPLAY_BYTES == firmware_DISPLAY_HEIGHT * firmware_DISPLAY_ROW_BYTES

firmware_Playfield_new ==
    [position |-> [x |-> zero, y |-> zero],
     velocity |-> [x |-> new_raw(4 * 182), y |-> new_raw(4 * 182)]]

\* Vec2::flip_x and Vec2::flip_y on self.ball.velocity
firmware_flip(m, axis) ==
    LET r == neg(m.ball.velocity[axis])
    IN  IF r.panic THEN Panic(m, "overflow")
        ELSE [m EXCEPT !.ball.velocity[axis] = r.value, !.flips[axis] = @ + 1]

\* self.ball.position.x += self.ball.velocity.x; and the same for y
firmware_AddVelocity(m, axis) ==
    LET r == add(m.ball.position[axis], m.ball.velocity[axis])
    IN  IF m.outcome # "ok" THEN m
        ELSE IF r.panic THEN Panic(m, "overflow")
        ELSE [m EXCEPT !.ball.position[axis] = r.value]

\* if self.ball.position.x < FixedPoint::zero() { ... }, and the same for y
firmware_ClampLow(m, axis) ==
    IF m.outcome # "ok" THEN m
    ELSE IF m.ball.position[axis] < zero
         THEN firmware_flip([m EXCEPT !.ball.position[axis] = zero], axis)
         ELSE m

\* if self.ball.position.x >= PLAYFIELD_WIDTH { ... }, and the same for y
\* and PLAYFIELD_HEIGHT
firmware_ClampHigh(m, axis, extent) ==
    LET r == sub(extent, one)
    IN  IF m.outcome # "ok" THEN m
        ELSE IF m.ball.position[axis] >= extent
             THEN IF r.panic THEN Panic(m, "overflow")
                  ELSE firmware_flip([m EXCEPT !.ball.position[axis] = r.value], axis)
             ELSE m

firmware_advance_ball(m) ==
    LET moved_x == firmware_AddVelocity(m, "x")
        moved_y == firmware_AddVelocity(moved_x, "y")
        low_x   == firmware_ClampLow(moved_y, "x")
        high_x  == firmware_ClampHigh(low_x, "x", firmware_PLAYFIELD_WIDTH)
        low_y   == firmware_ClampLow(high_x, "y")
        high_y  == firmware_ClampHigh(low_y, "y", firmware_PLAYFIELD_HEIGHT)
    IN  high_y

firmware_advance(m) == firmware_advance_ball(m)

firmware_draw_horizontal_line(m, x, y, length) ==
    LET y_offset == y * firmware_DISPLAY_ROW_BYTES
    IN  StoreLine(m, {y_offset + my_x * firmware_BYTES_PER_PIXEL + i :
                        my_x \in x .. (x + length - 1),
                        i \in 0 .. (firmware_BYTES_PER_PIXEL - 1)})

firmware_BORDER_LEFT == firmware_PLAYFIELD_LEFT - 1
firmware_BORDER_HORIZONTAL_LENGTH == as_integer(firmware_PLAYFIELD_WIDTH) + 2

\* debug_assert_eq!(buffer.len(), DISPLAY_BYTES);
firmware_debug_assert_len(m) ==
    IF m.outcome # "ok" THEN m
    ELSE IF DebugAssertions /\ m.screen.len # firmware_DISPLAY_BYTES THEN Panic(m, "assert")
    ELSE m

firmware_draw_playfield_border(m) ==
    LET top    == firmware_draw_horizontal_line(firmware_debug_assert_len(m),
                      firmware_BORDER_LEFT, firmware_PLAYFIELD_TOP - 1,
                      firmware_BORDER_HORIZONTAL_LENGTH)
        bottom == firmware_draw_horizontal_line(top, firmware_BORDER_LEFT,
                      firmware_PLAYFIELD_TOP + as_integer(firmware_PLAYFIELD_HEIGHT) + 1,
                      firmware_BORDER_HORIZONTAL_LENGTH)
    IN  bottom

\* let mut screen = [0u8; DISPLAY_BYTES]; self.draw_playfield_border(&mut screen);
\* the transfer to the display follows when the border has been drawn
firmware_draw(b) ==
    firmware_draw_playfield_border(Call(b, ZeroBuffer(firmware_DISPLAY_BYTES)))

(***************************************************************************)
(* on_board/breakout_arduino/src/timer.rs.  tick() is called from the      *)
(* SysTick exception handler only (main.rs).  An exception handler runs    *)
(* above thread mode: main() makes no step while a handler is active.      *)
(* timer.handler is the stack of active SysTick handlers, each with its    *)
(* position in tick() and its local current_value.                         *)
(***************************************************************************)
\* thread mode runs
Thread == timer.handler = << >>

\* the exception could be taken again while its handler is active
SysTickTaken_Reentrant == Len(timer.handler) < 2

\* SysTick is taken when it is not active already
SysTickTaken == timer.handler = << >>

\* read_volatile(&TICK_TIMER)
value == timer.TICK_TIMER

\* the exception is taken: the handler calls tick()
SysTick ==
    /\ timer.ticks + Len(timer.handler) < MaxTicks
    /\ SysTickTaken
    /\ timer' = [timer EXCEPT !.handler = <<[pc |-> "read", current_value |-> 0]>> \o @]
    /\ UNCHANGED <<profile, ball, screen, outcome, pc, last, prev, flips, written, calls,
                   fp, board, bus>>

\* tick: let current_value = value();
tick_read ==
    /\ timer.handler # << >>
    /\ Head(timer.handler).pc = "read"
    /\ timer' = [timer EXCEPT !.handler[1] = [pc |-> "write", current_value |-> value]]
    /\ UNCHANGED <<profile, ball, screen, outcome, pc, last, prev, flips, written, calls,
                   fp, board, bus>>

\* tick: write_volatile(&mut TICK_TIMER, current_value + 1); and the return
\* from the exception.  The counter stays far below u32::MAX within MaxTicks.
tick_write ==
    /\ timer.handler # << >>
    /\ Head(timer.handler).pc = "write"
    /\ timer' = [timer EXCEPT !.TICK_TIMER = Head(timer.handler).current_value + 1,
                              !.handler = Tail(@),
                              !.ticks = @ + 1]
    /\ UNCHANGED <<profile, ball, screen, outcome, pc, last, prev, flips, written, calls,
                   fp, board, bus>>

(***************************************************************************)
(* timer.rs: delay(), the reader of the counter in thread mode.  Every     *)
(* value() is one volatile load of an aligned word; the exception preempts *)
(* the thread between any two of its steps and returns before the thread   *)
(* goes on.  timer.before and timer.seen are the results of the thread's    *)
(* last two value() calls.                                                 *)
(***************************************************************************)
\* the durations a caller asks for, in milliseconds
Durations == {0, 9, 10, 25, MaxMillis}

InitTimer ==
    /\ profile \in {"dev", "release"}
    /\ ball = Playfield_new
    /\ screen = ZeroBuffer(0)
    /\ outcome = "ok"
    /\ pc = "timer"
    /\ last = "new"
    /\ prev = [ball |-> Playfield_new, screen |-> ZeroBuffer(0)]
    /\ flips = NoCall
    /\ written = {}
    /\ calls = 0
    /\ fp = NoTest
    /\ board = BoardOff
    /\ timer = [TimerOff EXCEPT !.pc = "idle"]
    /\ bus = BusOff

\* delay: tenms_units, current_timer = value(), target_value
delay ==
    /\ Thread
    /\ timer.pc = "idle"
    /\ \E duration \in Durations :
           LET tenms_units == duration \div 10
               current_timer == value
           IN  timer' = [timer EXCEPT !.pc = "while",
                                      !.target_value = current_timer + tenms_units,
                                      !.before = timer.seen,
                                      !.seen = current_timer]
    /\ UNCHANGED <<profile, ball, screen, outcome, pc, last, prev, flips, written, calls,
                   fp, board, bus>>

\* delay: while value() < target_value { nop(); }
delay_while ==
    /\ Thread
    /\ timer.pc = "while"
    /\ timer' = [timer EXCEPT !.pc = IF value < timer.target_value THEN "while" ELSE "idle",
                              !.before = timer.seen,
                              !.seen = value]
    /\ UNCHANGED <<profile, ball, screen, outcome, pc, last, prev, flips, written, calls,
                   fp, board, bus>>

NextTimer == SysTick \/ tick_read \/ tick_write \/ delay \/ delay_while

SpecTimer == InitTimer /\ [][NextTimer]_vars

(***************************************************************************)
(* on_board/breakout_arduino/src/main.rs: main() from the set-up of the    *)
(* playfield on.  A panic ends in handle_panic, which never returns.       *)
(***************************************************************************)
\* what read_keypad() can return: no key, one key, some keys, all keys pressed
KeypadStates == {65535, 65534, 4660, 0}

\* let mut playfield = Playfield::new();
\* playfield.ball.position.x += FixedPoint::new_integer(7);
firmware_start ==
    [firmware_Playfield_new EXCEPT
        !.position.x = add(firmware_Playfield_new.position.x, new_integer(7)).value]

InitBoard ==
    /\ profile \in {"dev", "release"}
    /\ ball = Playfield_new
    /\ screen = ZeroBuffer(0)
    /\ outcome = "ok"
    /\ pc = "board"
    /\ last = "new"
    /\ prev = [ball |-> Playfield_new, screen |-> ZeroBuffer(0)]
    /\ flips = NoCall
    /\ written = {}
    /\ calls = 0
    /\ fp = NoTest
    /\ board = [BoardOff EXCEPT !.pc = "keypad", !.ball = firmware_start]
    /\ timer = TimerOff
    /\ bus = BusOff

\* let state = crate::keypad::read_keypad(&mut peripherals);
BoardReadKeypad ==
    /\ Thread
    /\ outcome = "ok"
    /\ board.pc = "keypad"
    /\ board.iterations < MaxIterations
    /\ \E state \in KeypadStates :
           board' = [board EXCEPT !.pc = "count", !.state = state]
    /\ UNCHANGED <<profile, ball, screen, outcome, pc, last, prev, flips, written, calls,
                   fp, timer, bus>>

\* delay_counter += 1; if delay_counter == 2 { delay_counter = 0; playfield.advance(); }
BoardCount ==
    /\ Thread
    /\ outcome = "ok"
    /\ board.pc = "count"
    /\ LET counted == board.delay_counter + 1
           m == firmware_advance(Call(board.ball, screen))
       IN  IF OverflowChecks /\ counted > 255
           THEN /\ outcome' = "overflow"
                /\ board' = [board EXCEPT !.pc = "panic"]
                /\ UNCHANGED <<last, prev, flips>>
           ELSE IF counted % 256 = 2
           THEN /\ outcome' = m.outcome
                /\ board' = [board EXCEPT !.pc = (IF m.outcome = "ok" THEN "draw" ELSE "panic"),
                                          !.delay_counter = 0,
                                          !.advances = @ + 1,
                                          !.ball = m.ball]
                /\ last' = "advance"
                /\ prev' = [ball |-> board.ball, screen |-> screen]
                /\ flips' = m.flips
           ELSE /\ board' = [board EXCEPT !.pc = "draw", !.delay_counter = counted % 256]
                /\ UNCHANGED <<outcome, last, prev, flips>>
    /\ UNCHANGED <<profile, ball, screen, pc, written, calls, fp, timer, bus>>

\* playfield.draw(&display, &mut peripherals); and the end of the iteration
BoardDraw ==
    /\ Thread
    /\ outcome = "ok"
    /\ board.pc = "draw"
    /\ LET m == firmware_draw(board.ball)
       IN  /\ outcome' = m.outcome
           /\ screen' = m.screen
           /\ written' = m.written
           /\ last' = "draw"
           /\ prev' = [ball |-> board.ball, screen |-> ZeroBuffer(firmware_DISPLAY_BYTES)]
           /\ board' = IF m.outcome = "ok"
                       THEN [board EXCEPT !.pc = "keypad", !.draws = @ + 1,
                                          !.frames = @ + 1, !.iterations = @ + 1]
                       ELSE [board EXCEPT !.pc = "panic", !.draws = @ + 1]
    /\ UNCHANGED <<profile, ball, pc, flips, calls, fp, timer, bus>>

NextBoard == BoardReadKeypad \/ BoardCount \/ BoardDraw \/ SysTick \/ tick_read \/ tick_write

SpecBoard == InitBoard /\ [][NextBoard]_vars

(***************************************************************************)
(* The simulation on its own: advance() called again and again by a        *)
(* driver that never stops, from Playfield::new() (the desktop program)    *)
(* and from the start state of the firmware's main().                      *)
(***************************************************************************)
InitOrbit ==
    /\ profile \in {"dev", "release"}
    /\ ball \in {Playfield_new, firmware_start}
    /\ screen = ZeroBuffer(0)
    /\ outcome = "ok"
    /\ pc = "orbit"
    /\ last = "new"
    /\ prev = [ball |-> ball, screen |-> ZeroBuffer(0)]
    /\ flips = NoCall
    /\ written = {}
    /\ calls = 0
    /\ fp = NoTest
    /\ board = BoardOff
    /\ timer = TimerOff
    /\ bus = BusOff

\* playfield.advance();
Tick ==
    /\ pc = "orbit"
    /\ outcome = "ok"
    /\ \E m \in {advance(Call(ball, screen))} : Return(m, "advance", screen)
    /\ UNCHANGED <<profile, pc, calls>>

NextOrbit == Tick

SpecOrbit == InitOrbit /\ [][NextOrbit]_vars

(***************************************************************************)
(* The same run under the fairness of a driver whose loop has no exit: a   *)
(* tick that can be made is made.                                          *)
(***************************************************************************)
SpecLive == InitOrbit /\ [][NextOrbit]_vars /\ WF_vars(Tick)

(***************************************************************************)
(* The two playfields side by side: the shared crate's in ball, the        *)
(* firmware's in board.ball, started on the same ball and advanced tick by *)
(* tick together.  From the two drivers' starts the run is followed        *)
(* without end; from any ball a client sets it is followed for MaxCalls    *)
(* ticks.  board.pc is "panic" once the firmware's advance() has panicked. *)
(***************************************************************************)
InitPair ==
    /\ profile \in {"dev", "release"}
    /\ \/ pc = "pair" /\ ball \in {Playfield_new, firmware_start}
       \/ pc = "pair_api" /\ ball \in RawBalls \cup FieldBalls
    /\ screen = ZeroBuffer(0)
    /\ outcome = "ok"
    /\ last = "new"
    /\ prev = [ball |-> ball, screen |-> ZeroBuffer(0)]
    /\ flips = NoCall
    /\ written = {}
    /\ calls = 0
    /\ fp = NoTest
    /\ board = [BoardOff EXCEPT !.pc = "advance", !.ball = ball]
    /\ timer = TimerOff
    /\ bus = BusOff

\* playfield.advance() on both
PairAdvance ==
    /\ outcome = "ok"
    /\ board.pc = "advance"
    /\ \E m \in {advance(Call(ball, screen))} :
           /\ ball' = m.ball
           /\ screen' = m.screen
           /\ outcome' = m.outcome
           /\ flips' = m.flips
           /\ written' = m.written
           /\ last' = "advance"
           /\ prev' = [ball |-> ball, screen |-> screen]
    /\ \E f \in {firmware_advance(Call(board.ball, screen))} :
           board' = [board EXCEPT !.ball = f.ball,
                                  !.pc = IF f.outcome = "ok" THEN "advance" ELSE "panic",
                                  !.advances = IF @ < MaxCalls THEN @ + 1 ELSE @]
    /\ UNCHANGED <<profile, pc, fp, timer, bus>>

\* the drivers' runs
PairTick == pc = "pair" /\ PairAdvance /\ UNCHANGED calls

\* a client's calls
PairApiTick == pc = "pair_api" /\ calls < MaxCalls /\ PairAdvance /\ calls' = calls + 1

NextPair == PairTick \/ PairApiTick

SpecPair == InitPair /\ [][NextPair]_vars

(***************************************************************************)
(* on_board/breakout/src/oled.rs: ArduinoZeroClick1Interface.  bus holds   *)
(* the pins PA18 (~CS) and PA20 (D/~C), SERCOM1's transmit buffer DATA,    *)
(* its shift register and its TXC flag, and the position of the program in *)
(* send() and internal_transmit() with their arguments.  An Option<u8> is  *)
(* a sequence of at most one byte.  The SPI master moves a byte from DATA  *)
(* to the idle shift register and shifts it out on its own, between any    *)
(* two steps of the program.  bus.wire lists the bytes shifted out since   *)
(* send() was entered, each with the pin levels at the start of its        *)
(* shifting and whether a pin moved during it.                             *)
(***************************************************************************)
Zeros(n) == [i \in 1 .. n |-> 0]

\* set_up, step 5 and 6 and 7: the send() calls it makes, in order
SetUpSends ==
    <<[command |-> <<21>>, data |-> <<0, 127>>],
      [command |-> <<117>>, data |-> <<0, 127>>],
      [command |-> <<92>>, data |-> << >>]>>
    \o [i \in 1 .. MaxChunks |-> [command |-> << >>, data |-> Zeros(ChunkLen)]]
    \o <<[command |-> <<21>>, data |-> <<16, 111>>],
         [command |-> <<117>>, data |-> <<0, 95>>],
         [command |-> <<175>>, data |-> << >>]>>

\* send() calls made after set_up: WriteRam and the pixels of a frame, a
\* command with one argument, and data of no bytes
LaterSends ==
    {[command |-> <<92>>, data |-> << >>],
     [command |-> << >>, data |-> <<255, 0, 255>>],
     [command |-> <<160>>, data |-> <<116>>],
     [command |-> << >>, data |-> << >>]}

\* intflag.read().dre(): the transmit buffer is empty
DRE == bus.DATA = << >>

\* the end of the transmission taken to be the emptying of the buffer
TransmitComplete_Dre == bus.DATA = << >>

\* intflag.read().txc(): the shift register is done and DATA holds no byte
TransmitComplete == bus.TXC

\* iopin!(set_low / set_high, ...): a pin driven to a level
SetPin(b, pin, level) ==
    [b EXCEPT ![pin] = level,
              !.shift = IF @ # << >> /\ b[pin] # level
                        THEN <<[@[1] EXCEPT !.moved = TRUE]>>
                        ELSE @]

OledFrame ==
    UNCHANGED <<profile, ball, screen, outcome, pc, last, prev, flips, written, calls,
                fp, board, timer>>

\* set_up after steps 1 to 4: ~CS high, D/~C low, the SPI master enabled and
\* idle
InitOled ==
    /\ profile \in {"dev", "release"}
    /\ ball = Playfield_new
    /\ screen = ZeroBuffer(0)
    /\ outcome = "ok"
    /\ pc = "oled"
    /\ last = "new"
    /\ prev = [ball |-> Playfield_new, screen |-> ZeroBuffer(0)]
    /\ flips = NoCall
    /\ written = {}
    /\ calls = 0
    /\ fp = NoTest
    /\ board = BoardOff
    /\ timer = TimerOff
    /\ bus = [pc |-> "idle", PA18 |-> 1, PA20 |-> 0, DATA |-> << >>, shift |-> << >>,
              TXC |-> FALSE, command |-> << >>, data |-> << >>, is_command |-> FALSE,
              todo |-> << >>, ret |-> "idle", wire |-> << >>, sends |-> 0]

\* send(peripherals, command, data) is called
send ==
    /\ bus.pc = "idle"
    /\ bus.sends < Len(SetUpSends) + MaxSends
    /\ \E call \in IF bus.sends < Len(SetUpSends) THEN {SetUpSends[bus.sends + 1]}
                   ELSE LaterSends :
           bus' = [bus EXCEPT !.pc = "send_dre", !.command = call.command,
                              !.data = call.data, !.wire = << >>]
    /\ OledFrame

\* send: while dre().bit_is_clear() {}
send_dre ==
    /\ bus.pc = "send_dre"
    /\ DRE
    /\ bus' = [bus EXCEPT !.pc = "send_select"]
    /\ OledFrame

\* send: iopin!(set_low, peripherals, PA, 18); if let Some(cmd) = command
\* { self.internal_transmit(peripherals, true, &[cmd]); }
send_select ==
    /\ bus.pc = "send_select"
    /\ bus' = IF bus.command # << >>
              THEN [SetPin(bus, "PA18", 0) EXCEPT !.pc = "transmit_dre", !.is_command = TRUE,
                                                  !.todo = bus.command, !.ret = "send_data"]
              ELSE [SetPin(bus, "PA18", 0) EXCEPT !.pc = "send_data"]
    /\ OledFrame

\* send: self.internal_transmit(peripherals, false, data);
send_data ==
    /\ bus.pc = "send_data"
    /\ bus' = [bus EXCEPT !.pc = "transmit_dre", !.is_command = FALSE,
                          !.todo = bus.data, !.ret = "send_unselect"]
    /\ OledFrame

\* send: iopin!(set_high, peripherals, PA, 18); and the return
send_unselect ==
    /\ bus.pc = "send_unselect"
    /\ bus' = [SetPin(bus, "PA18", 1) EXCEPT !.pc = "idle", !.sends = @ + 1]
    /\ OledFrame

\* internal_transmit: while dre().bit_is_clear() {}
transmit_dre ==
    /\ bus.pc = "transmit_dre"
    /\ DRE
    /\ bus' = [bus EXCEPT !.pc = "transmit_pin"]
    /\ OledFrame

\* internal_transmit: if is_command { iopin!(set_low, peripherals, PA, 20); }
transmit_pin ==
    /\ bus.pc = "transmit_pin"
    /\ bus' = IF bus.is_command THEN [SetPin(bus, "PA20", 0) EXCEPT !.pc = "transmit_for"]
              ELSE [bus EXCEPT !.pc = "transmit_for"]
    /\ OledFrame

\* internal_transmit: for b in data { data.modify(...) ... }; a write of
\* DATA clears TXC
transmit_for ==
    /\ bus.pc = "transmit_for"
    /\ bus' = IF bus.todo = << >> THEN [bus EXCEPT !.pc = "transmit_txc"]
              ELSE [bus EXCEPT !.pc = "transmit_byte_dre",
                               !.DATA = <<[byte |-> Head(bus.todo),
                                           is_command |-> bus.is_command]>>,
                               !.TXC = FALSE,
                               !.todo = Tail(@)]
    /\ OledFrame

\* internal_transmit: while dre().bit_is_clear() {}, in the loop
transmit_byte_dre ==
    /\ bus.pc = "transmit_byte_dre"
    /\ DRE
    /\ bus' = [bus EXCEPT !.pc = "transmit_for"]
    /\ OledFrame

\* internal_transmit: while txc().bit_is_clear() {}
transmit_txc ==
    /\ bus.pc = "transmit_txc"
    /\ TransmitComplete
    /\ bus' = [bus EXCEPT !.pc = "transmit_high"]
    /\ OledFrame

\* internal_transmit: iopin!(set_high, peripherals, PA, 20); and the return
transmit_high ==
    /\ bus.pc = "transmit_high"
    /\ bus' = [SetPin(bus, "PA20", 1) EXCEPT !.pc = bus.ret]
    /\ OledFrame

\* SERCOM1: the byte in DATA goes to the idle shift register
spi_load ==
    /\ bus.pc # "off"
    /\ bus.DATA # << >>
    /\ bus.shift = << >>
    /\ bus' = [bus EXCEPT !.DATA = << >>,
                          !.shift = <<[byte |-> bus.DATA[1].byte,
                                       is_command |-> bus.DATA[1].is_command,
                                       PA18 |-> bus.PA18, PA20 |-> bus.PA20,
                                       moved |-> FALSE]>>]
    /\ OledFrame

\* SERCOM1: the last bit of the byte is out; TXC is set when DATA is empty
spi_shifted ==
    /\ bus.pc # "off"
    /\ bus.shift # << >>
    /\ bus' = [bus EXCEPT !.shift = << >>,
                          !.wire = Append(@, bus.shift[1]),
                          !.TXC = IF bus.DATA = << >> THEN TRUE ELSE @]
    /\ OledFrame

NextOled ==
    \/ send \/ send_dre \/ send_select \/ send_data \/ send_unselect
    \/ transmit_dre \/ transmit_pin \/ transmit_for \/ transmit_byte_dre
    \/ transmit_txc \/ transmit_high
    \/ spi_load \/ spi_shifted

SpecOled == InitOled /\ [][NextOled]_vars

(***************************************************************************)
(* Properties.                                                             *)
(***************************************************************************)
InField(b) ==
    /\ 0 <= b.position.x /\ b.position.x < 94 * 256
    /\ 0 <= b.position.y /\ b.position.y < 85 * 256

\* position + velocity of the ball the last call was made on, as integers
SumX == prev.ball.position.x + prev.ball.velocity.x
SumY == prev.ball.position.y + prev.ball.velocity.y

Advanced == last = "advance"

\* C1: from Playfield::new(), after any number of advance() calls the ball
\* position satisfies 0 <= x < 94 and 0 <= y < 85 (raw: below 94*256, 85*256).
C1_BounceInvariant == outcome = "ok" /\ InField(ball)

\* C1 witness: an advance() has just clamped the ball at the right edge.
C1_Witness ==
    /\ Advanced /\ pc = "poll"
    /\ SumX >= 94 * 256
    /\ ball.position.x = 93 * 256

\* C2 (as claimed): from every ball state whatsoever, one advance() call
\* returns with the position inside [0, 94) x [0, 85).
C2_ClampedFromAnyState == Advanced => (outcome = "ok" /\ InField(ball))

C4_LowEdgeReflection ==
    Advanced =>
        /\ SumX < 0 =>
              /\ outcome = "ok"
              /\ ball.position.x = 0
              /\ ball.velocity.x = 0 - prev.ball.velocity.x
        /\ SumY < 0 =>
              /\ outcome = "ok"
              /\ ball.position.y = 0
              /\ ball.velocity.y = 0 - prev.ball.velocity.y
        /\ (0 <= SumX /\ SumX < 94 * 256) =>
              /\ outcome = "ok"
              /\ ball.position.x = SumX
              /\ ball.velocity.x = prev.ball.velocity.x
        /\ (0 <= SumY /\ SumY < 85 * 256) =>
              /\ outcome = "ok"
              /\ ball.position.y = SumY
              /\ ball.velocity.y = prev.ball.velocity.y

\* C4 witness: the ball has left through the low x edge while the y axis
\* moved inside the field by a non-zero step.
C4_Witness ==
    /\ Advanced
    /\ SumX < 0 /\ ball.position.x = 0 /\ ball.velocity.x > 0
    /\ prev.ball.velocity.y # 0 /\ ball.position.y = SumY /\ SumY > 0

\* what one tick does to one axis, told from that axis alone
AxisPosition(sum, extent) ==
    IF sum < 0 THEN 0 ELSE IF sum >= extent THEN extent - 256 ELSE sum

AxisVelocity(sum, velocity, extent) ==
    IF sum < 0 \/ sum >= extent THEN 0 - velocity ELSE velocity

\* C5: the axes are handled independently.  In a corner (both sums out of
\* range) both velocities are negated and both positions clamped in that one
\* tick, and on every tick the outcome on an axis is a function of that axis's
\* own position and velocity.
C5_AxesIndependent ==
    Advanced =>
        /\ outcome = "ok"
        /\ ((SumX < 0 \/ SumX >= 94 * 256) /\ (SumY < 0 \/ SumY >= 85 * 256)) =>
              /\ flips = [x |-> 1, y |-> 1]
              /\ ball.velocity.x = 0 - prev.ball.velocity.x
              /\ ball.velocity.y = 0 - prev.ball.velocity.y
              /\ ball.position.x \in {0, 93 * 256}
              /\ ball.position.y \in {0, 84 * 256}
        /\ ball.position.x = AxisPosition(SumX, 94 * 256)
        /\ ball.velocity.x = AxisVelocity(SumX, prev.ball.velocity.x, 94 * 256)
        /\ ball.position.y = AxisPosition(SumY, 85 * 256)
        /\ ball.velocity.y = AxisVelocity(SumY, prev.ball.velocity.y, 85 * 256)

\* C5 witness: a corner bounce, the x axis leaving at the high edge and the
\* y axis at the low edge in the same tick.
C5_Witness ==
    /\ Advanced
    /\ SumX >= 94 * 256 /\ SumY < 0
    /\ flips = [x |-> 1, y |-> 1]

\* C6: in every state reachable from Playfield::new() each velocity component
\* is raw +728 or -728 (never zero), and one tick negates a component at most
\* once.
C6_VelocityMagnitude ==
    /\ ball.velocity.x \in {728, -728}
    /\ ball.velocity.y \in {728, -728}
    /\ flips.x <= 1 /\ flips.y <= 1
    /\ Advanced =>
          /\ ball.velocity.x = (IF flips.x = 1 THEN 0 - prev.ball.velocity.x
                                ELSE prev.ball.velocity.x)
          /\ ball.velocity.y = (IF flips.y = 1 THEN 0 - prev.ball.velocity.y
                                ELSE prev.ball.velocity.y)

\* C6 witness: the last tick has reflected the y component, once, at the
\* bottom edge.
C6_Witness ==
    /\ Advanced
    /\ flips = [x |-> 0, y |-> 1]
    /\ prev.ball.velocity.y = 728 /\ ball.velocity.y = -728

\* the two bytes of the pixel at (column, row) of the display
PixelBytes(col, row) == {row * 192 + col * 2, row * 192 + col * 2 + 1}

\* the one-pixel ring around the playfield: rows 9 and 95 over columns 0..95,
\* columns 0 and 95 over rows 9..95
RingBytes ==
    UNION {PixelBytes(col, row) : col \in 0 .. 95, row \in {9, 95}}
    \cup UNION {PixelBytes(col, row) : col \in {0, 95}, row \in 9 .. 95}

\* the pixel of a ball: column 1 + floor(x), row 10 + floor(y)
BallBytes(b) == PixelBytes(1 + (b.position.x \div 256), 10 + (b.position.y \div 256))

\* the frame of a ball, as the map of the non-zero bytes
Frame(b) == [i \in RingBytes \cup BallBytes(b) |-> 255]

Drawn == last = "draw"

\* C7: after draw() into a zero-filled buffer of 18432 bytes, for every ball
\* with its position in the field, the bytes equal to 0xFF are exactly the
\* bytes of the border ring and the two bytes of the ball's pixel, and every
\* other byte is 0x00.
C7_Rasterization ==
    (Drawn /\ prev.screen = ZeroBuffer(18432) /\ InField(prev.ball)) =>
        /\ outcome = "ok"
        /\ screen.len = 18432
        /\ {i \in DOMAIN screen.bytes : screen.bytes[i] = 255}
               = RingBytes \cup BallBytes(prev.ball)
        /\ {i \in DOMAIN screen.bytes : screen.bytes[i] # 255} = {}

\* C7 witness: the ball in the bottom-right pixel of the field has been drawn
\* next to the ring's corner.
C7_Witness ==
    /\ Drawn /\ outcome = "ok"
    /\ prev.screen = ZeroBuffer(18432)
    /\ ball.position.x = 93 * 256 + 255 /\ ball.position.y = 84 * 256 + 255
    /\ 94 * 192 + 94 * 2 \in DOMAIN screen.bytes

\* C8 (as claimed): the buffer after draw() is a function of the current ball
\* alone, whatever the buffer held before the call.
C8_FrameOfBallAlone ==
    (Drawn /\ outcome = "ok" /\ screen.len = 18432) => screen.bytes = Frame(ball)

\* C8 (amended): draw() sets the bytes of the border ring and of the current
\* ball pixel to 0xFF and leaves every other byte as it was; so the buffer
\* after draw() is the frame of the current ball when the buffer handed in is
\* zero-filled.
C8_DrawKeepsOtherBytes ==
    (Drawn /\ outcome = "ok" /\ screen.len = 18432) =>
        /\ screen.bytes = Frame(ball) @@ prev.screen.bytes
        /\ prev.screen.bytes = << >> => screen.bytes = Frame(ball)

\* C8 witness: draw() has run on a buffer that held the frame of an earlier
\* ball position, and that pixel is still set.
C8_Witness ==
    /\ Drawn /\ outcome = "ok" /\ screen.len = 18432
    /\ prev.screen.bytes # << >>
    /\ DOMAIN screen.bytes # RingBytes \cup BallBytes(ball)

\* C9: draw() never changes the ball (position and velocity are the same
\* before and after, in every outcome), and advance() writes nothing but the
\* ball: the buffer is the same before and after.
C9_DrawReadsAdvanceWrites ==
    /\ Drawn => (ball = prev.ball /\ flips = NoCall)
    /\ Advanced => (screen = prev.screen /\ written = {})

\* C9 witness: a draw() that stored the frame, made after an advance() that
\* moved the ball.
C9_Witness ==
    /\ Drawn /\ outcome = "ok" /\ calls = 2
    /\ BallBytes(ball) \subseteq written
    /\ ball.velocity.x # 0 /\ ball.velocity.y # 0
    /\ screen.len = 18432

\* C10: in a build with debug assertions, draw() on a buffer whose length is
\* not 18432, shorter or longer, ends in the assertion failure before any byte
\* of the buffer is written.
C10_WrongLengthAsserts ==
    (Drawn /\ profile = "dev" /\ prev.screen.len # 18432) =>
        /\ outcome = "assert"
        /\ screen = prev.screen
        /\ written = {}

\* C10 witness: draw() was handed a buffer one byte too long in a build with
\* debug assertions.
C10_Witness ==
    /\ Drawn /\ profile = "dev"
    /\ prev.screen.len = 18433
    /\ outcome = "assert"


(***************************************************************************)
(* Properties of the FixedPoint operations (SpecFixed).                    *)
(***************************************************************************)
\* the two's-complement reading of the low 16 bits of n
Low16(n) == LET u == n % 65536 IN IF u >= 32768 THEN u - 65536 ELSE u

\* the two's-complement reading of the low 8 bits of n
Low8(n) == LET u == n % 256 IN IF u >= 128 THEN u - 256 ELSE u

\* the raw value stands for an integer of the i8 range
IsWhole(raw) == \E k \in I8 : k * 256 = raw

\* the integer a whole raw value stands for
WholeOf(raw) == CHOOSE k \in I8 : k * 256 = raw

Abs(n) == IF n < 0 THEN 0 - n ELSE n

\* q is n / d with the fraction dropped: toward zero
IsTruncatedQuotient(q, n, d) ==
    /\ Abs(q) * Abs(d) <= Abs(n)
    /\ Abs(n) < (Abs(q) + 1) * Abs(d)
    /\ (q > 0 => (n > 0) = (d > 0))
    /\ (q < 0 => (n > 0) # (d > 0))

\* C11: a + b and a - b return the low 16 bits of the exact sum and difference,
\* read as two's complement, for every pair of operands and without a trap.
C11_AddSubWrapSilently ==
    /\ fp.op = "add" => (outcome = "ok" /\ fp.value = Low16(fp.a + fp.b))
    /\ fp.op = "sub" => (outcome = "ok" /\ fp.value = Low16(fp.a - fp.b))

\* C12: -a returns the two's-complement negation without a trap, the minimum
\* raw value negating to itself, and negating twice returns a.
C12_NegWrapsSilently ==
    /\ fp.op = "neg" =>
          /\ outcome = "ok"
          /\ fp.value = Low16(0 - fp.a)
          /\ (fp.a = I16_MIN => fp.value = I16_MIN)
    /\ fp.op = "neg_twice" => (outcome = "ok" /\ fp.value = fp.a)

\* C13: a * b returns the low 16 bits of floor(a * b / 2^8), the product being
\* exact in 32 bits; negative products go down, never to nearest, and the
\* multiplication never traps.
C13_MulFloorsAndWraps ==
    fp.op = "mul" =>
        LET product == fp.a * fp.b
            floor == product \div 256
        IN  /\ outcome = "ok"
            /\ FitsI32(product)
            /\ 256 * floor <= product
            /\ product < 256 * (floor + 1)
            /\ fp.value = Low16(floor)

\* a negative product that is no multiple of 2^8 has been multiplied out
C13_Witness ==
    /\ fp.op = "mul"
    /\ outcome = "ok"
    /\ fp.a * fp.b < 0
    /\ (fp.a * fp.b) % 256 = 128

\* C14: for a divisor other than zero a / b returns the low 16 bits of
\* (a * 2^8) / b, the quotient truncated toward zero; the dividend shifted in
\* 32 bits never overflows.
C14_DivTruncatesTowardZero ==
    (fp.op = "div" /\ fp.b # 0) =>
        LET dividend == fp.a * 256
        IN  /\ outcome = "ok"
            /\ FitsI32(dividend)
            /\ \E q \in {dividend \div Abs(fp.b), 0 - (dividend \div Abs(fp.b)),
                         (0 - dividend) \div Abs(fp.b), 0 - ((0 - dividend) \div Abs(fp.b))} :
                   /\ IsTruncatedQuotient(q, dividend, fp.b)
                   /\ fp.value = Low16(q)

\* a negative quotient with a remainder has been returned
C14_Witness ==
    /\ fp.op = "div"
    /\ outcome = "ok"
    /\ (fp.a < 0) # (fp.b < 0)
    /\ fp.b # 0
    /\ (Abs(fp.a) * 256) % Abs(fp.b) # 0

\* C15: a division by raw zero ends in the trap for every dividend and never
\* returns a value.
C15_DivByZeroTraps ==
    (fp.op = "div" /\ fp.b = 0) => outcome = "divide"

\* a dividend other than zero has been divided by zero without overflow checks
C15_Witness ==
    /\ fp.op = "div"
    /\ fp.b = 0
    /\ fp.a # 0
    /\ profile = "release"
    /\ outcome = "divide"

\* C16: as_integer returns floor(v / 2^8), always an i8: raw -1 gives -1 and
\* raw -257 gives -2.
C16_AsIntegerFloors ==
    fp.op = "as_integer" =>
        /\ fp.value \in I8
        /\ fp.value * 256 <= fp.a
        /\ fp.a < (fp.value + 1) * 256
        /\ (fp.a = -1 => fp.value = -1)
        /\ (fp.a = -257 => fp.value = -2)

\* raw -257 has been converted
C16_Witness == fp.op = "as_integer" /\ fp.a = -257 /\ fp.value = -2

\* C17: new_integer(n) has the raw value n * 2^8 without overflow, is an integer
\* and converts back to n; a raw value is an integer exactly when its low 8
\* bits are zero, and exactly when new_integer(as_integer(v)) gives it back.
C17_IntegerRoundTrip ==
    /\ fp.op = "new_integer" =>
          /\ fp.value = fp.a * 256
          /\ FitsI16(fp.a * 256)
          /\ fp.flag
          /\ fp.back = fp.a
    /\ fp.op = "is_integer" =>
          /\ fp.flag <=> IsWhole(fp.a)
          /\ fp.flag <=> (fp.back = fp.a)

\* a value of exactly one half has been tested and is no integer
C17_Witness == fp.op = "is_integer" /\ fp.a = 128 /\ ~fp.flag /\ fp.back = 0

\* C18: for integers a and b whose sum is an i8, i(a) + i(b) equals i(a + b).
C18_IntegerAddExact ==
    (fp.op = "add" /\ IsWhole(fp.a) /\ IsWhole(fp.b)
        /\ WholeOf(fp.a) + WholeOf(fp.b) \in I8) =>
        /\ outcome = "ok"
        /\ fp.value = (WholeOf(fp.a) + WholeOf(fp.b)) * 256
        /\ fp.value = new_integer(WholeOf(fp.a) + WholeOf(fp.b))

\* i(23) + i(42) has given i(65)
C18_Witness ==
    /\ fp.op = "add"
    /\ fp.a = 23 * 256
    /\ fp.b = 42 * 256
    /\ fp.value = 65 * 256
    /\ outcome = "ok"

\* C19: for all integers a and b of the i8 range, i(a) - i(b) equals i(a - b),
\* the difference wrapped to 8 bits, without a trap.
C19_IntegerSubExact ==
    (fp.op = "sub" /\ IsWhole(fp.a) /\ IsWhole(fp.b)) =>
        /\ outcome = "ok"
        /\ fp.value = Low8(WholeOf(fp.a) - WholeOf(fp.b)) * 256

\* C20: for integers a and b whose product is an i8, of either sign each,
\* i(a) * i(b) equals i(a * b).
C20_IntegerMulExact ==
    (fp.op = "mul" /\ IsWhole(fp.a) /\ IsWhole(fp.b)
        /\ WholeOf(fp.a) * WholeOf(fp.b) \in I8) =>
        /\ outcome = "ok"
        /\ fp.value = (WholeOf(fp.a) * WholeOf(fp.b)) * 256
        /\ fp.value = new_integer(WholeOf(fp.a) * WholeOf(fp.b))

\* i(-4) * i(3) has given i(-12)
C20_Witness ==
    /\ fp.op = "mul"
    /\ fp.a = -4 * 256
    /\ fp.b = 3 * 256
    /\ fp.value = -12 * 256
    /\ outcome = "ok"

\* C21: for integers a and b, b not zero and dividing a exactly with the
\* quotient an i8, of either sign each, i(a) / i(b) equals i(a / b).
C21_IntegerDivExact ==
    (fp.op = "div" /\ IsWhole(fp.a) /\ IsWhole(fp.b) /\ fp.b # 0) =>
        \A q \in I8 :
            q * WholeOf(fp.b) = WholeOf(fp.a) =>
                /\ outcome = "ok"
                /\ fp.value = q * 256
                /\ fp.value = new_integer(q)

\* i(-12) / i(4) has given i(-3)
C21_Witness ==
    /\ fp.op = "div"
    /\ fp.a = -12 * 256
    /\ fp.b = 4 * 256
    /\ fp.value = -3 * 256
    /\ outcome = "ok"

\* C22: for integers a and b, b not zero and not dividing a but dividing
\* 256 * a with a quotient of 16 bits, q = i(a) / i(b) is no integer and
\* q * i(b) equals i(a).
C22_DivKeepsFraction ==
    (fp.op = "div_mul" /\ IsWhole(fp.a) /\ IsWhole(fp.b) /\ fp.b # 0
        /\ (\A k \in I8 : k * WholeOf(fp.b) # WholeOf(fp.a))
        /\ (256 * WholeOf(fp.a)) % Abs(WholeOf(fp.b)) = 0
        /\ FitsI16((256 * WholeOf(fp.a)) \div Abs(WholeOf(fp.b)))
        /\ FitsI16(0 - ((256 * WholeOf(fp.a)) \div Abs(WholeOf(fp.b))))) =>
        /\ outcome = "ok"
        /\ fp.back * WholeOf(fp.b) = 256 * WholeOf(fp.a)
        /\ ~fp.flag
        /\ fp.value = fp.a

\* i(4) / i(8) has given one half, and one half times i(8) has given i(4)
C22_Witness ==
    /\ fp.op = "div_mul"
    /\ fp.a = 4 * 256
    /\ fp.b = 8 * 256
    /\ fp.back = 128
    /\ ~fp.flag
    /\ fp.value = 4 * 256

(***************************************************************************)
(* Properties of the firmware (SpecBoard, SpecTimer).                      *)
(***************************************************************************)
\* C23: the firmware's main loop draws once in every iteration and advances
\* once in every second one, before the draw: after n iterations there have
\* been n draws and n \div 2 advances, delay_counter is 0 or 1 at the end of
\* every iteration, and every iteration comes to its end.
C23_HalfRateCadence ==
    board.pc # "off" =>
        /\ outcome = "ok"
        /\ board.delay_counter \in {0, 1}
        /\ board.pc = "keypad" =>
               /\ board.draws = board.iterations
               /\ board.advances = board.iterations \div 2
               /\ board.delay_counter = board.iterations % 2
        /\ board.pc = "draw" =>
               /\ board.draws = board.iterations
               /\ board.advances = (board.iterations + 1) \div 2

\* C27: in the firmware's draw() the top and the bottom border line are on
\* display rows 0 .. 95 and every index stored to is inside the screen, so no
\* draw() faults and every draw() sends its frame to the display.
C27_FirmwareBorderInsideScreen ==
    board.draws > 0 =>
        /\ outcome = "ok"
        /\ board.frames = board.draws
        /\ firmware_PLAYFIELD_TOP - 1 \in 0 .. (firmware_DISPLAY_HEIGHT - 1)
        /\ firmware_PLAYFIELD_TOP + as_integer(firmware_PLAYFIELD_HEIGHT) + 1
               \in 0 .. (firmware_DISPLAY_HEIGHT - 1)
        /\ \A i \in written : i < firmware_DISPLAY_BYTES

(***************************************************************************)
(* Properties of the simulation that never stops (SpecOrbit).              *)
(***************************************************************************)
\* C24: under repeated advance() calls the ball keeps bouncing forever: on
\* each axis the velocity is positive again and again and negative again and
\* again, the ball is on the low edge (0) and on the high edge (extent - 1)
\* again and again, and it is never at rest.
C24_BouncesForever ==
    /\ [](ball.velocity.x # 0 /\ ball.velocity.y # 0)
    /\ []<>(ball.velocity.x > 0) /\ []<>(ball.velocity.x < 0)
    /\ []<>(ball.velocity.y > 0) /\ []<>(ball.velocity.y < 0)
    /\ []<>(ball.position.x = 0) /\ []<>(ball.position.x = PLAYFIELD_WIDTH - one)
    /\ []<>(ball.position.y = 0) /\ []<>(ball.position.y = PLAYFIELD_HEIGHT - one)

\* the ball has come back from the high edge and bounces off the low edge of x
C24_Witness ==
    /\ pc = "orbit"
    /\ last = "advance"
    /\ flips.x = 1
    /\ ball.position.x = 0
    /\ ball.velocity.x > 0

\* C29: in no state reachable from Playfield::new() or from the firmware's
\* start state does advance() rely on wraparound: the sums position + velocity
\* fit 16 bits on both axes, PLAYFIELD_WIDTH - 1 and PLAYFIELD_HEIGHT - 1 fit,
\* no velocity to be negated is raw -32768, and no overflow check trips.
C29_NoWraparoundReachable ==
    /\ outcome = "ok"
    /\ FitsI16(ball.position.x + ball.velocity.x)
    /\ FitsI16(ball.position.y + ball.velocity.y)
    /\ FitsI16(PLAYFIELD_WIDTH - one)
    /\ FitsI16(PLAYFIELD_HEIGHT - one)
    /\ ball.velocity.x # I16_MIN
    /\ ball.velocity.y # I16_MIN

\* with overflow checks on, the ball has bounced off the high edge of y
C29_Witness ==
    /\ pc = "orbit"
    /\ profile = "dev"
    /\ last = "advance"
    /\ flips.y = 1
    /\ ball.position.y = PLAYFIELD_HEIGHT - one
    /\ prev.ball.position.y + prev.ball.velocity.y >= PLAYFIELD_HEIGHT
    /\ outcome = "ok"

\* C25: with SysTick exceptions taken between any two steps of the thread,
\* every completed tick() has raised TICK_TIMER by exactly one (the counter
\* is the number of completed ticks; inside a tick() the value read is the
\* counter's), and of two successive value() calls of the thread the later
\* one does not return less.
C25_TickCounterMonotonic ==
    timer.pc # "off" =>
        /\ timer.TICK_TIMER = timer.ticks
        /\ \A i \in 1 .. Len(timer.handler) :
               timer.handler[i].pc = "write" => timer.handler[i].current_value = timer.ticks
        /\ timer.before <= timer.seen
        /\ timer.seen <= timer.TICK_TIMER

\* a delay() that saw the counter rise while ticks came in between its reads
C25_Witness ==
    /\ timer.pc = "while"
    /\ timer.ticks >= 2
    /\ timer.before < timer.seen
    /\ timer.seen = timer.ticks
    /\ timer.handler # << >>

\* C26: started on the same ball, after every tick the firmware playfield's
\* ball has the position and velocity raw values of the shared playfield's
\* ball, and one advance() panics exactly when the other does.
C26_FirmwareAdvanceIsSharedAdvance ==
    pc \in {"pair", "pair_api"} =>
        /\ board.ball = ball
        /\ (board.pc = "panic") = (outcome # "ok")

\* both have bounced off the bottom edge and off the right edge
C26_Witness ==
    /\ pc = "pair"
    /\ board.pc = "advance"
    /\ board.advances = MaxCalls
    /\ last = "advance"
    /\ flips.y = 1
    /\ board.ball.position.y = PLAYFIELD_HEIGHT - one
    /\ board.ball.velocity.x < 0
    /\ board.ball = ball

\* C28: for every ball reached from Playfield::new() by advance() calls, the
\* draw() of the driver's loop returns, every byte index it writes is below
\* DISPLAY_BYTES, and the bytes it writes outside the border ring are the
\* two bytes of one pixel in display column 1..94 and row 10..94: the pixel
\* of the ball, which is not on the ring, above it or outside the buffer.
C28_BallDrawnInsideRing ==
    (pc = "advance" /\ Drawn) =>
        /\ outcome = "ok"
        /\ \A i \in written : 0 <= i /\ i < DISPLAY_BYTES
        /\ LET col == PLAYFIELD_LEFT + as_integer(ball.position.x)
               row == PLAYFIELD_TOP + as_integer(ball.position.y)
           IN  /\ col \in 1 .. 94
               /\ row \in 10 .. 94
               /\ written \ RingBytes = PixelBytes(col, row)

\* a frame drawn with the ball on the last row of the field, next to the
\* ring's bottom line
C28_Witness ==
    /\ pc = "advance"
    /\ Drawn
    /\ outcome = "ok"
    /\ ball.position.y = PLAYFIELD_HEIGHT - one
    /\ PixelBytes(PLAYFIELD_LEFT + as_integer(ball.position.x), 94) \subseteq written

\* the bytes of a send(command, data) in the order of its arguments, each with
\* the level D/~C has to have for it: 0 for the command, 1 for data
Framed(command, data) ==
    [i \in 1 .. Len(command) |-> [byte |-> command[i], PA20 |-> 0]]
    \o [i \in 1 .. Len(data) |-> [byte |-> data[i], PA20 |-> 1]]

IsPrefix(p, q) == Len(p) <= Len(q) /\ \A i \in 1 .. Len(p) : p[i] = q[i]

\* the bytes shifted out, with the level of D/~C at the start of each
Wire == [i \in 1 .. Len(bus.wire) |-> [byte |-> bus.wire[i].byte, PA20 |-> bus.wire[i].PA20]]

\* C30: in set_up's sends and in every send() after them: a byte is in DATA
\* or in the shift register only while ~CS (PA18) is low; every byte is
\* shifted out with ~CS low and with D/~C (PA20) low for the command byte and
\* high for a data byte, neither pin moving during the byte; the bytes go out
\* in the order command, data[0], data[1], ...; and when send() has returned
\* all of them are out and both pins are high.
C30_DisplayFraming ==
    bus.pc # "off" =>
        /\ (bus.DATA # << >> \/ bus.shift # << >>) => bus.PA18 = 0
        /\ \A i \in 1 .. Len(bus.wire) : bus.wire[i].PA18 = 0 /\ ~bus.wire[i].moved
        /\ IsPrefix(Wire, Framed(bus.command, bus.data))
        /\ (bus.pc = "idle" /\ bus.sends > 0) =>
               /\ bus.PA18 = 1
               /\ bus.PA20 = 1
               /\ bus.DATA = << >> /\ bus.shift = << >>
               /\ Wire = Framed(bus.command, bus.data)

\* a send() after set_up has returned with a command byte and a data byte
\* shifted out
C30_Witness ==
    /\ bus.pc = "idle"
    /\ bus.sends > Len(SetUpSends)
    /\ Len(bus.wire) = 2
    /\ bus.wire[1].is_command /\ bus.wire[1].PA20 = 0
    /\ ~bus.wire[2].is_command /\ bus.wire[2].PA20 = 1
    /\ bus.PA18 = 1 /\ bus.PA20 = 1

====
